---- MODULE Spec2Model ----
(***************************************************************************)
(* A model of koncord: the run loop of src/lib.rs, the typed transaction   *)
(* state machine of src/transaction.rs and the Account/Balance arithmetic  *)
(* of src/client.rs.                                                       *)
(*                                                                         *)
(* Decimal amounts are modelled as integers (a fixed unit of the scale);   *)
(* the 96-bit range of rust_decimal is far from the bounds used here.      *)
(* Option<T> is modelled as a sequence: None is <<>>, Some(x) is <<x>>.     *)
(***************************************************************************)
EXTENDS Integers, Sequences, FiniteSets, TLC

VARIABLES
    file,       \* the records of the input file, in file order
    pos,        \* number of records the run loop has read so far
    clients,    \* HashMap<u16, Client>: client id -> Account
    disputes,   \* HashMap<u32, Decimal>: the dispute cache
    status,     \* "Running", or how run ended: "Ok", "Err", "Panic"
    error,      \* the InvalidTransitionError run returned, if any
    acct,       \* an Account driven by direct calls, as the unit tests do
    calls,      \* the direct calls made on `acct` so far, in order
    txn         \* one transaction driven through the typed state machine

vars == <<file, pos, clients, disputes, status, error, acct, calls, txn>>
runVars == <<file, pos, clients, disputes, status, error>>

(***************************************************************************)
(* Bounds of the model.                                                    *)
(***************************************************************************)
MaxLen == 3
MaxClient == 2
MaxTx == 2
MaxAmount == 2
MaxCalls == 3

None == <<>>
Some(x) == <<x>>

ClientIds == 1..MaxClient
TxIds == 1..MaxTx
\* Amounts a record of the file may carry, and amounts of direct calls.
Amounts == 0..MaxAmount
CallAmounts == (0 - MaxAmount)..MaxAmount

(***************************************************************************)
(* transaction.rs: TransactionKind, Record.                                *)
(***************************************************************************)
TransactionKind == {"Deposit", "Withdrawal", "Dispute", "Resolve", "Chargeback"}

Record ==
    [kind : TransactionKind, client : ClientIds, tx : TxIds,
     amount : {None} \cup {Some(a) : a \in Amounts}]

(***************************************************************************)
(* client.rs: Balance.                                                     *)
(***************************************************************************)
BalanceNew == [available |-> 0, held |-> 0, total |-> 0]

\* BalanceDeposit that rejects a zero amount only.
BalanceDepositAcceptsNegative(balance, amount) ==
    IF amount # 0
    THEN [balance EXCEPT !.available = @ + amount, !.total = @ + amount]
    ELSE balance

BalanceDeposit(balance, amount) ==
    IF amount > 0
    THEN [balance EXCEPT !.available = @ + amount, !.total = @ + amount]
    ELSE balance

\* BalanceWithdraw with a non-strict comparison of the available funds.
BalanceWithdrawNonStrict(balance, amount) ==
    IF balance.available >= amount /\ amount > 0
    THEN [balance EXCEPT !.available = @ - amount, !.total = @ - amount]
    ELSE balance

\* BalanceWithdraw that does not look at the available funds.
BalanceWithdrawUnchecked(balance, amount) ==
    IF amount > 0
    THEN [balance EXCEPT !.available = @ - amount, !.total = @ - amount]
    ELSE balance

BalanceWithdraw(balance, amount) ==
    IF balance.available > amount /\ amount > 0
    THEN [balance EXCEPT !.available = @ - amount, !.total = @ - amount]
    ELSE balance

\* BalanceDispute that holds no more than the available funds.
BalanceDisputeCapsAtAvailable(balance, amount) ==
    IF amount > 0
    THEN LET hold == IF balance.available >= amount THEN amount
                     ELSE IF balance.available > 0 THEN balance.available ELSE 0
         IN  [balance EXCEPT !.available = @ - hold, !.held = @ + hold]
    ELSE balance

\* BalanceDispute that requires the available funds to cover the amount.
BalanceDisputeNeedsFunds(balance, amount) ==
    IF amount > 0 /\ balance.available >= amount
    THEN [balance EXCEPT !.available = @ - amount, !.held = @ + amount]
    ELSE balance

\* BalanceDispute that forgets to add the amount to held.
BalanceDisputeKeepsHeld(balance, amount) ==
    IF amount > 0
    THEN [balance EXCEPT !.available = @ - amount]
    ELSE balance

BalanceDispute(balance, amount) ==
    IF amount > 0
    THEN [balance EXCEPT !.available = @ - amount, !.held = @ + amount]
    ELSE balance

\* BalanceResolve that releases the held funds without making them available.
BalanceResolveKeepsAvailable(balance, amount) ==
    IF amount > 0
    THEN [balance EXCEPT !.held = @ - amount]
    ELSE balance

BalanceResolve(balance, amount) ==
    IF amount > 0
    THEN [balance EXCEPT !.available = @ + amount, !.held = @ - amount]
    ELSE balance

\* BalanceChargeback that takes the amount from available instead of held.
BalanceChargebackFromAvailable(balance, amount) ==
    IF amount > 0
    THEN [balance EXCEPT !.available = @ - amount, !.total = @ - amount]
    ELSE balance

BalanceChargeback(balance, amount) ==
    IF amount > 0
    THEN [balance EXCEPT !.held = @ - amount, !.total = @ - amount]
    ELSE balance

(***************************************************************************)
(* client.rs: Account (AccountInner::Open / AccountInner::Frozen).         *)
(***************************************************************************)
AccountNew == [inner |-> "Open", balance |-> BalanceNew]

\* AccountDeposit that does not look at the Open/Frozen state.
AccountDepositUngated(account, amount) ==
    [account EXCEPT !.balance = BalanceDeposit(@, amount)]

AccountDeposit(account, amount) ==
    IF account.inner = "Open"
    THEN [account EXCEPT !.balance = BalanceDeposit(@, amount)]
    ELSE account

\* AccountWithdraw that also withdraws from a Frozen account.
AccountWithdrawUngated(account, amount) ==
    [account EXCEPT !.balance = BalanceWithdraw(@, amount)]

AccountWithdraw(account, amount) ==
    IF account.inner = "Open"
    THEN [account EXCEPT !.balance = BalanceWithdraw(@, amount)]
    ELSE account

AccountDispute(account, amount) ==
    IF account.inner = "Open"
    THEN [account EXCEPT !.balance = BalanceDispute(@, amount)]
    ELSE account

AccountResolve(account, amount) ==
    IF account.inner = "Open"
    THEN [account EXCEPT !.balance = BalanceResolve(@, amount)]
    ELSE account

\* AccountChargeback that forgets to freeze the account.
AccountChargebackStaysOpen(account, amount) ==
    IF account.inner = "Open"
    THEN [account EXCEPT !.balance = BalanceChargeback(@, amount)]
    ELSE account

AccountChargeback(account, amount) ==
    IF account.inner = "Open"
    THEN [inner |-> "Frozen", balance |-> BalanceChargeback(account.balance, amount)]
    ELSE account

\* Client::new(id): the account of a new client.
ClientNew(id) == AccountNew

(***************************************************************************)
(* transaction.rs: the typed state machine.  A fallible conversion returns *)
(* [ok |-> TRUE, val |-> state] or [ok |-> FALSE, err |-> error].          *)
(***************************************************************************)
Ok(v) == [ok |-> TRUE, val |-> v]
Err(e) == [ok |-> FALSE, err |-> e]

InvalidTransitionError(from, to) == [from |-> from, to |-> to]

\* No transaction is under way.
NoTransaction == [stage |-> "None"]

\* impl From<Record> for Transaction<Received>
Received(record) == [id |-> record.tx, kind |-> record.kind, amount |-> record.amount]

\* Transaction::<Processing>::new
Processing(kind, amount) == [kind |-> kind, amount |-> amount]

\* ReceivedToProcessing that accepts every kind that carries an amount.
ReceivedToProcessingAnyKind(prev) ==
    IF prev.amount # None
    THEN Ok(Processing(prev.kind, prev.amount[1]))
    ELSE Err(InvalidTransitionError("Transaction<Received>", "Transaction<Processing>"))

\* impl TryFrom<Transaction<Received>> for Transaction<Processing>
ReceivedToProcessing(prev) ==
    IF prev.kind \in {"Deposit", "Withdrawal"}
    THEN IF prev.amount # None
         THEN Ok(Processing(prev.kind, prev.amount[1]))
         ELSE Err(InvalidTransitionError("Transaction<Received>", "Transaction<Processing>"))
    ELSE Err(InvalidTransitionError("Transaction<Received>", prev.kind))

\* impl TryFrom<Transaction<Received>> for Transaction<DisputeLookup>
ReceivedToDisputeLookup(prev) ==
    IF prev.kind = "Dispute"
    THEN Ok([tx |-> prev.id, amount |-> None])
    ELSE Err(InvalidTransitionError("Transaction<Received>", prev.kind))

\* impl TryFrom<Transaction<Received>> for Transaction<Resolved>
ReceivedToResolved(prev) ==
    IF prev.kind = "Resolve"
    THEN Ok([tx |-> prev.id, amount |-> None])
    ELSE Err(InvalidTransitionError("Transaction<Received>", prev.kind))

\* impl TryFrom<Transaction<Received>> for Transaction<ChargedBack>
ReceivedToChargedBack(prev) ==
    IF prev.kind = "Chargeback"
    THEN Ok([tx |-> prev.id, amount |-> None])
    ELSE Err(InvalidTransitionError("Transaction<Received>", prev.kind))

\* set_amount on DisputeLookup / Resolved / ChargedBack
SetAmount(state, amount) == [state EXCEPT !.amount = amount]

\* DisputeLookupToProcessing that takes an absent amount for zero.
DisputeLookupToProcessingDefaultsZero(prev) ==
    Ok(Processing("Dispute", IF prev.amount # None THEN prev.amount[1] ELSE 0))

\* impl TryFrom<Transaction<DisputeLookup>> for Transaction<Processing>
DisputeLookupToProcessing(prev) ==
    IF prev.amount # None
    THEN Ok(Processing("Dispute", prev.amount[1]))
    ELSE Err(InvalidTransitionError("Transaction<DisputeLookup>", "Transaction<Processing>"))

\* impl TryFrom<Transaction<Resolved>> for Transaction<Processing>
ResolvedToProcessing(prev) ==
    IF prev.amount # None
    THEN Ok(Processing("Resolve", prev.amount[1]))
    ELSE Err(InvalidTransitionError("Transaction<Resolved>", "Transaction<Processing>"))

\* impl TryFrom<Transaction<ChargedBack>> for Transaction<Processing>
ChargedBackToProcessing(prev) ==
    IF prev.amount # None
    THEN Ok(Processing("Chargeback", prev.amount[1]))
    ELSE Err(InvalidTransitionError("Transaction<ChargedBack>", "Transaction<Processing>"))

\* Process that dispatches a resolve to Account::chargeback.
ProcessResolveAsChargeback(processing, account) ==
    CASE processing.kind = "Deposit"    -> AccountDeposit(account, processing.amount)
      [] processing.kind = "Withdrawal" -> AccountWithdraw(account, processing.amount)
      [] processing.kind = "Dispute"    -> AccountDispute(account, processing.amount)
      [] processing.kind = "Resolve"    -> AccountChargeback(account, processing.amount)
      [] processing.kind = "Chargeback" -> AccountChargeback(account, processing.amount)

\* Transaction<Processing>::process: the account after the dispatch.
Process(processing, account) ==
    CASE processing.kind = "Deposit"    -> AccountDeposit(account, processing.amount)
      [] processing.kind = "Withdrawal" -> AccountWithdraw(account, processing.amount)
      [] processing.kind = "Dispute"    -> AccountDispute(account, processing.amount)
      [] processing.kind = "Resolve"    -> AccountResolve(account, processing.amount)
      [] processing.kind = "Chargeback" -> AccountChargeback(account, processing.amount)

(***************************************************************************)
(* lib.rs: lookup_record scans the records of the file at records_path     *)
(* from its first row and stops at the first one whose tx matches.         *)
(***************************************************************************)
\* LookupIndex that scans on from the read position of the primary stream.
LookupIndexFromPosition(records, tx) ==
    IF \E i \in (pos + 2)..Len(records) : records[i].tx = tx
    THEN CHOOSE i \in (pos + 2)..Len(records) :
            /\ records[i].tx = tx
            /\ \A j \in (pos + 2)..(i - 1) : records[j].tx # tx
    ELSE 0

LookupIndex(records, tx) ==
    IF \E i \in 1..Len(records) : records[i].tx = tx
    THEN CHOOSE i \in 1..Len(records) :
            /\ records[i].tx = tx
            /\ \A j \in 1..(i - 1) : records[j].tx # tx
    ELSE 0

lookup_record(records, tx) ==
    IF LookupIndex(records, tx) = 0 THEN None ELSE Some(records[LookupIndex(records, tx)])

(***************************************************************************)
(* HashMap insert / remove on the dispute cache.                           *)
(***************************************************************************)
MapInsert(map, key, value) ==
    [k \in DOMAIN map \cup {key} |-> IF k = key THEN value ELSE map[k]]

\* MapRemove that leaves the entry in the map.
MapRemoveKeepsEntry(map, key) == map

MapRemove(map, key) == [k \in DOMAIN map \ {key} |-> map[k]]

MapGet(map, key) == IF key \in DOMAIN map THEN Some(map[key]) ELSE None

(***************************************************************************)
(* lib.rs: process_record.  The result is the outcome ("Ok", "Err" for a   *)
(* returned InvalidTransitionError, "Panic" for the unwrap of an absent    *)
(* amount), the account and the dispute cache it leaves, and the error.    *)
(***************************************************************************)
Outcome(outcome, account, cache, err) ==
    [outcome |-> outcome, account |-> account, disputes |-> cache, error |-> err]

Fail(conv, account, cache) == Outcome("Err", account, cache, Some(conv.err))

ProcessDepositWithdrawal(recieved, account, cache) ==
    LET processing == ReceivedToProcessing(recieved)
    IN  IF processing.ok
        THEN Outcome("Ok", Process(processing.val, account), cache, None)
        ELSE Fail(processing, account, cache)

ProcessDispute(recieved, account, cache, records) ==
    LET dispute_lookup == ReceivedToDisputeLookup(recieved)
    IN  IF ~dispute_lookup.ok THEN Fail(dispute_lookup, account, cache)
        ELSE
        LET found == lookup_record(records, dispute_lookup.val.tx)
        IN  IF found = None THEN Outcome("Ok", account, cache, None)
            ELSE IF found[1].amount = None THEN Outcome("Panic", account, cache, None)
            ELSE
            LET inserted == MapInsert(cache, found[1].tx, found[1].amount[1])
                processing ==
                    DisputeLookupToProcessing(SetAmount(dispute_lookup.val, found[1].amount))
            IN  IF processing.ok
                THEN Outcome("Ok", Process(processing.val, account), inserted, None)
                ELSE Fail(processing, account, inserted)

\* ProcessResolve that trusts the amount of the resolve record when it has one.
ProcessResolveOwnAmount(recieved, account, cache) ==
    LET resolved == ReceivedToResolved(recieved)
    IN  IF ~resolved.ok THEN Fail(resolved, account, cache)
        ELSE
        LET amount == IF recieved.amount # None THEN recieved.amount
                      ELSE MapGet(cache, resolved.val.tx)
            removed == MapRemove(cache, resolved.val.tx)
        IN  IF amount = None THEN Outcome("Ok", account, removed, None)
            ELSE
            LET processing == ResolvedToProcessing(SetAmount(resolved.val, amount))
            IN  IF processing.ok
                THEN Outcome("Ok", Process(processing.val, account), removed, None)
                ELSE Fail(processing, account, removed)

ProcessResolve(recieved, account, cache) ==
    LET resolved == ReceivedToResolved(recieved)
    IN  IF ~resolved.ok THEN Fail(resolved, account, cache)
        ELSE
        LET amount == MapGet(cache, resolved.val.tx)
            removed == MapRemove(cache, resolved.val.tx)
        IN  IF amount = None THEN Outcome("Ok", account, removed, None)
            ELSE
            LET processing == ResolvedToProcessing(SetAmount(resolved.val, amount))
            IN  IF processing.ok
                THEN Outcome("Ok", Process(processing.val, account), removed, None)
                ELSE Fail(processing, account, removed)

ProcessChargeback(recieved, account, cache) ==
    LET chargeback == ReceivedToChargedBack(recieved)
    IN  IF ~chargeback.ok THEN Fail(chargeback, account, cache)
        ELSE
        LET amount == MapGet(cache, chargeback.val.tx)
            removed == MapRemove(cache, chargeback.val.tx)
        IN  IF amount = None THEN Outcome("Ok", account, removed, None)
            ELSE
            LET processing == ChargedBackToProcessing(SetAmount(chargeback.val, amount))
            IN  IF processing.ok
                THEN Outcome("Ok", Process(processing.val, account), removed, None)
                ELSE Fail(processing, account, removed)

process_record(record, account, cache, records) ==
    LET recieved == Received(record)
    IN  CASE recieved.kind \in {"Deposit", "Withdrawal"} ->
                ProcessDepositWithdrawal(recieved, account, cache)
          [] recieved.kind = "Dispute" -> ProcessDispute(recieved, account, cache, records)
          [] recieved.kind = "Resolve" -> ProcessResolve(recieved, account, cache)
          [] recieved.kind = "Chargeback" -> ProcessChargeback(recieved, account, cache)

(***************************************************************************)
(* lib.rs: run.  main opens the reader and the lookup path on the same     *)
(* file, so the loop and lookup_record see the same records.               *)
(***************************************************************************)
\* EntryOrInsert that inserts a new client over an existing one.
EntryAlwaysInsert(map, id) == MapInsert(map, id, ClientNew(id))

\* clients.entry(id).or_insert(Client::new(id))
EntryOrInsert(map, id) ==
    IF id \in DOMAIN map THEN map ELSE MapInsert(map, id, ClientNew(id))

Files == UNION {[1..n -> Record] : n \in 0..MaxLen}

Init ==
    /\ file \in Files
    /\ pos = 0
    /\ clients = << >>
    /\ disputes = << >>
    /\ status = "Running"
    /\ error = None
    /\ acct = AccountNew
    /\ calls = << >>
    /\ txn = NoTransaction

\* RunRecord that applies a dispute to the client of the record it looked up.
RunRecordToOwner(kinds) ==
    /\ status = "Running"
    /\ pos < Len(file)
    /\ file[pos + 1].kind \in kinds
    /\ LET record == file[pos + 1]
           entry == EntryOrInsert(clients, record.client)
           found == lookup_record(file, record.tx)
           owner == IF record.kind = "Dispute" /\ found # None
                    THEN found[1].client ELSE record.client
           out == process_record(record, entry[owner], disputes, file)
       IN  /\ pos' = pos + 1
           /\ clients' = [entry EXCEPT ![owner] = out.account]
           /\ disputes' = out.disputes
           /\ status' = IF out.outcome = "Ok" THEN "Running" ELSE out.outcome
           /\ error' = out.error
    /\ UNCHANGED <<file, acct, calls, txn>>

\* RunRecord whose chargeback locks every client of the map.
RunRecordFreezesAll(kinds) ==
    /\ status = "Running"
    /\ pos < Len(file)
    /\ file[pos + 1].kind \in kinds
    /\ LET record == file[pos + 1]
           entry == EntryOrInsert(clients, record.client)
           out == process_record(record, entry[record.client], disputes, file)
           freezes == entry[record.client].inner = "Open" /\ out.account.inner = "Frozen"
       IN  /\ pos' = pos + 1
           /\ clients' = [c \in DOMAIN entry |->
                            IF c = record.client THEN out.account
                            ELSE IF freezes THEN [entry[c] EXCEPT !.inner = "Frozen"]
                            ELSE entry[c]]
           /\ disputes' = out.disputes
           /\ status' = IF out.outcome = "Ok" THEN "Running" ELSE out.outcome
           /\ error' = out.error
    /\ UNCHANGED <<file, acct, calls, txn>>

\* One iteration of the for loop of run, on a record of one of `kinds`.
RunRecord(kinds) ==
    /\ status = "Running"
    /\ pos < Len(file)
    /\ file[pos + 1].kind \in kinds
    /\ LET record == file[pos + 1]
           entry == EntryOrInsert(clients, record.client)
           out == process_record(record, entry[record.client], disputes, file)
       IN  /\ pos' = pos + 1
           /\ clients' = [entry EXCEPT ![record.client] = out.account]
           /\ disputes' = out.disputes
           /\ status' = IF out.outcome = "Ok" THEN "Running" ELSE out.outcome
           /\ error' = out.error
    /\ UNCHANGED <<file, acct, calls, txn>>

RunDepositWithdrawal == RunRecord({"Deposit", "Withdrawal"})
RunDispute == RunRecord({"Dispute"})
RunResolve == RunRecord({"Resolve"})
RunChargeback == RunRecord({"Chargeback"})

\* RunOk that never returns.
RunOkNeverReturns ==
    /\ status = "Running"
    /\ pos = Len(file)
    /\ UNCHANGED vars

\* The stream is exhausted: run returns Ok(()).
RunOk ==
    /\ status = "Running"
    /\ pos = Len(file)
    /\ status' = "Ok"
    /\ UNCHANGED <<file, pos, clients, disputes, error, acct, calls, txn>>

Next ==
    \/ RunDepositWithdrawal
    \/ RunDispute
    \/ RunResolve
    \/ RunChargeback
    \/ RunOk

Spec == Init /\ [][Next]_vars

\* run as a function of the file: the client map, the dispute cache and the
\* outcome after the first n records, and after the whole run.
RECURSIVE RunAfter(_, _)
RunAfter(records, n) ==
    IF n = 0
    THEN [clients |-> << >>, disputes |-> << >>, status |-> "Running"]
    ELSE LET prev == RunAfter(records, n - 1)
         IN  IF prev.status # "Running" THEN prev
             ELSE LET record == records[n]
                      entry == EntryOrInsert(prev.clients, record.client)
                      out == process_record(record, entry[record.client],
                                            prev.disputes, records)
                  IN  [clients |-> [entry EXCEPT ![record.client] = out.account],
                       disputes |-> out.disputes,
                       status |-> IF out.outcome = "Ok" THEN "Running" ELSE out.outcome]

RunOf(records) ==
    LET last == RunAfter(records, Len(records))
    IN  [last EXCEPT !.status = IF @ = "Running" THEN "Ok" ELSE @]

\* run as a thread that nothing suspends: while it can take a step it does.
\* Over the files of Spec whose records all name client 1.
FairFiles == {f \in Files : \A i \in 1..Len(f) : f[i].client = 1}

FairInit ==
    /\ file \in FairFiles
    /\ pos = 0
    /\ clients = << >>
    /\ disputes = << >>
    /\ status = "Running"
    /\ error = None
    /\ acct = AccountNew
    /\ calls = << >>
    /\ txn = NoTransaction

SpecFair == FairInit /\ [][Next]_vars /\ WF_vars(Next)

(***************************************************************************)
(* run over the files a ledger export holds: a deposit or withdrawal row   *)
(* carries a positive amount, a dispute, resolve or chargeback row leaves  *)
(* the amount column empty.  One record longer than the files of Spec.     *)
(***************************************************************************)
CsvRecord ==
    {r \in Record :
        IF r.kind \in {"Deposit", "Withdrawal"}
        THEN r.amount \in {Some(a) : a \in 1..MaxAmount}
        ELSE r.amount = None}

CsvFiles == UNION {[1..n -> CsvRecord] : n \in 0..MaxLen + 1}

CsvInit ==
    /\ file \in CsvFiles
    /\ pos = 0
    /\ clients = << >>
    /\ disputes = << >>
    /\ status = "Running"
    /\ error = None
    /\ acct = AccountNew
    /\ calls = << >>
    /\ txn = NoTransaction

SpecCsv == CsvInit /\ [][Next]_vars

(***************************************************************************)
(* run over the toy files of tests/toys.rs: the five records of base.csv,  *)
(* followed by up to MaxTail further records.  Amounts of these files are  *)
(* counted in halves: 1.0 is 2, 1.5 is 3, 2.0 is 4, 3.0 is 6 (Decimal      *)
(* addition, subtraction and comparison are exact, so the unit is free).   *)
(***************************************************************************)
MaxTail == 5

Row(kind, client, tx, amount) ==
    [kind |-> kind, client |-> client, tx |-> tx, amount |-> amount]

\* base.csv
ScenarioA ==
    << Row("Deposit", 1, 1, Some(2)),
       Row("Deposit", 2, 2, Some(4)),
       Row("Deposit", 1, 3, Some(4)),
       Row("Withdrawal", 1, 4, Some(3)),
       Row("Withdrawal", 2, 5, Some(6)) >>

\* The rows dispute.csv, resolve.csv and chargeback.csv add to base.csv.
ScenarioDeposit == Row("Deposit", 1, 6, Some(3))
ScenarioDispute == Row("Dispute", 1, 6, None)
ScenarioResolve == Row("Resolve", 1, 6, None)
ScenarioChargeback == Row("Chargeback", 1, 6, None)

\* dispute.csv, resolve.csv, chargeback.csv
ScenarioB == ScenarioA \o <<ScenarioDeposit, ScenarioDispute>>
ScenarioC == ScenarioB \o <<ScenarioResolve>>
ScenarioD == ScenarioB \o <<ScenarioChargeback>>

\* The records that may follow base.csv: the four above, and a deposit and a
\* withdrawal of 1.0 by client 1 under a new tx.
ScenarioRecord ==
    {ScenarioDeposit, ScenarioDispute, ScenarioResolve, ScenarioChargeback,
     Row("Deposit", 1, 7, Some(2)), Row("Withdrawal", 1, 7, Some(2))}

ScenarioFiles ==
    {ScenarioA \o tail : tail \in UNION {[1..n -> ScenarioRecord] : n \in 0..MaxTail}}

ScenarioInit ==
    /\ file \in ScenarioFiles
    /\ pos = 0
    /\ clients = << >>
    /\ disputes = << >>
    /\ status = "Running"
    /\ error = None
    /\ acct = AccountNew
    /\ calls = << >>
    /\ txn = NoTransaction

SpecScenario == ScenarioInit /\ [][Next]_vars

(***************************************************************************)
(* Direct calls on one Account, as the unit tests of client.rs make them   *)
(* through client.get_mut(): any operation with any amount, in any order.  *)
(***************************************************************************)
AccountInit ==
    /\ file = << >>
    /\ pos = 0
    /\ clients = << >>
    /\ disputes = << >>
    /\ status = "Running"
    /\ error = None
    /\ acct = AccountNew
    /\ calls = << >>
    /\ txn = NoTransaction

Call(op, amount, after) ==
    /\ Len(calls) < MaxCalls
    /\ acct' = after
    /\ calls' = Append(calls, [op |-> op, amount |-> amount])
    /\ UNCHANGED <<runVars, txn>>

CallDeposit == \E a \in CallAmounts : Call("deposit", a, AccountDeposit(acct, a))
CallWithdraw == \E a \in CallAmounts : Call("withdraw", a, AccountWithdraw(acct, a))
CallDispute == \E a \in CallAmounts : Call("dispute", a, AccountDispute(acct, a))
CallResolve == \E a \in CallAmounts : Call("resolve", a, AccountResolve(acct, a))
CallChargeback == \E a \in CallAmounts : Call("chargeback", a, AccountChargeback(acct, a))

AccountNext ==
    \/ CallDeposit
    \/ CallWithdraw
    \/ CallDispute
    \/ CallResolve
    \/ CallChargeback

SpecAccount == AccountInit /\ [][AccountNext]_vars

\* The account that Account::new() becomes under the direct calls cs, in order.
RECURSIVE AccountAfter(_)
AccountAfter(cs) ==
    IF cs = << >> THEN AccountNew
    ELSE LET before == AccountAfter(SubSeq(cs, 1, Len(cs) - 1))
             call == cs[Len(cs)]
         IN  CASE call.op = "deposit"    -> AccountDeposit(before, call.amount)
               [] call.op = "withdraw"   -> AccountWithdraw(before, call.amount)
               [] call.op = "dispute"    -> AccountDispute(before, call.amount)
               [] call.op = "resolve"    -> AccountResolve(before, call.amount)
               [] call.op = "chargeback" -> AccountChargeback(before, call.amount)

(***************************************************************************)
(* One transaction driven through the typed state machine by any caller of *)
(* transaction.rs: from Received any of the four conversions may be        *)
(* attempted, whatever the kind.  txn.stage is the type parameter of       *)
(* Transaction<S> ("Failed" once a conversion has returned Err), txn.state *)
(* the state struct, txn.received the Received state it started from,      *)
(* txn.target the state type of the last conversion attempted.             *)
(***************************************************************************)
TransactionAccounts ==
    {AccountNew,
     [inner |-> "Open", balance |-> [available |-> 2, held |-> 1, total |-> 3]],
     [inner |-> "Frozen", balance |-> [available |-> 1, held |-> 0, total |-> 1]]}

TransactionInit ==
    /\ file = << >>
    /\ pos = 0
    /\ clients = << >>
    /\ disputes = << >>
    /\ status = "Running"
    /\ error = None
    /\ acct \in TransactionAccounts
    /\ calls = << >>
    /\ \E record \in Record :
          txn = [stage |-> "Received", state |-> Received(record),
                 received |-> Received(record), target |-> "Received", error |-> None]

\* Transaction::<target>::try_from(transaction), with result conv.
TryFrom(from, target, conv) ==
    /\ txn.stage = from
    /\ txn' = IF conv.ok
              THEN [txn EXCEPT !.stage = target, !.state = conv.val, !.target = target]
              ELSE [txn EXCEPT !.stage = "Failed", !.target = target,
                               !.error = Some(conv.err)]
    /\ UNCHANGED <<runVars, acct, calls>>

TryProcessing ==
    txn.stage = "Received" /\ TryFrom("Received", "Processing", ReceivedToProcessing(txn.state))

TryDisputeLookup ==
    txn.stage = "Received"
    /\ TryFrom("Received", "DisputeLookup", ReceivedToDisputeLookup(txn.state))

TryResolved ==
    txn.stage = "Received" /\ TryFrom("Received", "Resolved", ReceivedToResolved(txn.state))

TryChargedBack ==
    txn.stage = "Received" /\ TryFrom("Received", "ChargedBack", ReceivedToChargedBack(txn.state))

\* set_amount(amount) on a DisputeLookup, Resolved or ChargedBack transaction.
TransactionSetAmount ==
    /\ txn.stage \in {"DisputeLookup", "Resolved", "ChargedBack"}
    /\ \E amount \in {None} \cup {Some(a) : a \in CallAmounts} :
          /\ amount # txn.state.amount
          /\ txn' = [txn EXCEPT !.state = SetAmount(@, amount)]
    /\ UNCHANGED <<runVars, acct, calls>>

DisputeLookupTryProcessing ==
    txn.stage = "DisputeLookup"
    /\ TryFrom("DisputeLookup", "Processing", DisputeLookupToProcessing(txn.state))

ResolvedTryProcessing ==
    txn.stage = "Resolved"
    /\ TryFrom("Resolved", "Processing", ResolvedToProcessing(txn.state))

ChargedBackTryProcessing ==
    txn.stage = "ChargedBack"
    /\ TryFrom("ChargedBack", "Processing", ChargedBackToProcessing(txn.state))

\* transaction.process(&mut account)
TransactionProcess ==
    /\ txn.stage = "Processing"
    /\ acct' = Process(txn.state, acct)
    /\ txn' = [txn EXCEPT !.stage = "Completed"]
    /\ UNCHANGED <<runVars, calls>>

TransactionNext ==
    \/ TryProcessing
    \/ TryDisputeLookup
    \/ TryResolved
    \/ TryChargedBack
    \/ TransactionSetAmount
    \/ DisputeLookupTryProcessing
    \/ ResolvedTryProcessing
    \/ ChargedBackTryProcessing
    \/ TransactionProcess

SpecTransaction == TransactionInit /\ [][TransactionNext]_vars

(***************************************************************************)
(* Vocabulary of the properties below.                                     *)
(***************************************************************************)
\* The run loop reads a record in this step; it is file[pos + 1].
Reads == pos' = pos + 1
Rec == file[pos + 1]

\* The account of client c as the step finds it (a zero, Open one if unseen).
ZeroOpen == [inner |-> "Open", balance |-> [available |-> 0, held |-> 0, total |-> 0]]
Before(c) == IF c \in DOMAIN clients THEN clients[c] ELSE ZeroOpen

\* The step changes no account: every client keeps its account, and a client
\* the step creates has the zero, Open account.
NoAccountChange == \A c \in DOMAIN clients' : clients'[c] = Before(c)

\* Indices of the records before index i that are of kind k and carry tx.
Earlier(i, kinds, tx) == {j \in 1..(i - 1) : file[j].kind \in kinds /\ file[j].tx = tx}

(***************************************************************************)
(* C1: for every account, in every state reachable by run over any         *)
(* sequence of records (between any two records too):                      *)
(* total = available + held.                                               *)
(***************************************************************************)
C1_TotalIsAvailablePlusHeld ==
    \A c \in DOMAIN clients :
        clients[c].balance.total = clients[c].balance.available + clients[c].balance.held

\* A deposit and a dispute were applied: funds are held and funds are available.
C1_Witness ==
    \E c \in DOMAIN clients :
        /\ clients[c].balance.held > 0
        /\ clients[c].balance.available > 0
        /\ pos = 3

(***************************************************************************)
(* C2: once an account is Frozen it stays Frozen, and no later call of     *)
(* deposit, withdraw, dispute, resolve or chargeback, with any amount,     *)
(* changes its available, held or total.                                   *)
(***************************************************************************)
C2_FrozenIsFinal ==
    [][acct.inner = "Frozen" =>
        /\ acct'.inner = "Frozen"
        /\ acct'.balance.available = acct.balance.available
        /\ acct'.balance.held = acct.balance.held
        /\ acct'.balance.total = acct.balance.total]_vars

\* A chargeback froze the account and a deposit of a positive amount followed.
C2_Witness ==
    /\ acct.inner = "Frozen"
    /\ \E i \in 1..(Len(calls) - 1) :
        /\ calls[i].op = "chargeback"
        /\ calls[i + 1].op = "deposit"
        /\ calls[i + 1].amount > 0

(***************************************************************************)
(* C3: a dispute, resolve or chargeback record whose tx_id is carried by   *)
(* no deposit or withdrawal record changes no account and raises no error: *)
(* run continues with the next record.                                     *)
(***************************************************************************)
C3_UnknownTxIsDropped ==
    [][(/\ Reads
        /\ Rec.kind \in {"Dispute", "Resolve", "Chargeback"}
        /\ \A j \in 1..Len(file) :
              file[j].kind \in {"Deposit", "Withdrawal"} => file[j].tx # Rec.tx)
       => (status' = "Running" /\ NoAccountChange)]_vars

(***************************************************************************)
(* C4: a dispute cache entry is removed exactly once, by the first resolve *)
(* or chargeback record for its tx_id; a second resolve or chargeback for  *)
(* the same tx_id, with no dispute for it in between, finds no entry and   *)
(* changes neither any account nor the cache.                              *)
(***************************************************************************)
\* A resolve or chargeback of tx was read before index i, with no dispute of
\* tx between it and i.
ConsumedBefore(i, tx) ==
    \E j \in Earlier(i, {"Resolve", "Chargeback"}, tx) :
        \A k \in Earlier(i, {"Dispute"}, tx) : k < j

C4_EntryRemovedOnce ==
    [][Reads =>
        /\ \A t \in DOMAIN disputes \ DOMAIN disputes' :
              Rec.kind \in {"Resolve", "Chargeback"} /\ Rec.tx = t
        /\ Rec.kind \in {"Resolve", "Chargeback"} => Rec.tx \notin DOMAIN disputes'
        /\ (Rec.kind \in {"Resolve", "Chargeback"} /\ ConsumedBefore(pos + 1, Rec.tx)) =>
              /\ Rec.tx \notin DOMAIN disputes
              /\ disputes' = disputes
              /\ NoAccountChange]_vars

\* A dispute was applied, a resolve consumed its entry and released the funds,
\* and a second resolve or chargeback of the same tx was then read.
C4_Witness ==
    /\ pos = 3
    /\ status = "Running"
    /\ file[1].kind = "Dispute" /\ file[1].amount = Some(1)
    /\ file[2].kind = "Resolve"
    /\ file[3].kind \in {"Resolve", "Chargeback"}
    /\ \A i \in 1..3 : file[i].tx = 1 /\ file[i].client = 1
    /\ clients[1] = ZeroOpen
    /\ disputes = << >>

(***************************************************************************)
(* C5: an entry tx_id -> amount is inserted into the dispute cache only    *)
(* when the dispute was successfully applied: the amount was actually      *)
(* moved from available to held on the client's account.  A dispute that   *)
(* changes no balance inserts nothing.  (Stated for the disputes of a      *)
(* tx_id that an earlier deposit or withdrawal record carries.)            *)
(***************************************************************************)
C5_InsertOnlyWhenApplied ==
    [][Reads =>
        \A t \in DOMAIN disputes' \ DOMAIN disputes :
            Earlier(pos + 1, {"Deposit", "Withdrawal"}, t) # {} =>
            /\ Rec.kind = "Dispute"
            /\ Rec.tx = t
            /\ clients'[Rec.client].balance # Before(Rec.client).balance
            /\ clients'[Rec.client].balance.available =
                  Before(Rec.client).balance.available - disputes'[t]
            /\ clients'[Rec.client].balance.held =
                  Before(Rec.client).balance.held + disputes'[t]]_vars

(***************************************************************************)
(* C6: a resolve or chargeback record changes an account only if a dispute *)
(* record for the same tx_id was read earlier and its cache entry has not  *)
(* been consumed since; the amount it applies is the amount that dispute   *)
(* cached (the amount of the record its lookup found); a resolve or        *)
(* chargeback read before any dispute of its tx_id is dropped, even when a *)
(* deposit with that tx_id exists.                                         *)
(***************************************************************************)
\* The account operation a resolve or chargeback record stands for.
Settle(kind, before, amount) ==
    IF kind = "Resolve" THEN AccountResolve(before, amount)
    ELSE AccountChargeback(before, amount)

\* The amount of the first record of the file that carries tx is m.
FirstCarrierHasAmount(tx, m) ==
    \E i \in 1..Len(file) :
        /\ file[i].tx = tx
        /\ \A j \in 1..(i - 1) : file[j].tx # tx
        /\ file[i].amount = Some(m)

C6_SettleNeedsOutstandingDispute ==
    [][(Reads /\ Rec.kind \in {"Resolve", "Chargeback"}) =>
        /\ (clients'[Rec.client] # Before(Rec.client)) =>
              /\ Rec.tx \in DOMAIN disputes
              /\ Earlier(pos + 1, {"Dispute"}, Rec.tx) # {}
              /\ ~ConsumedBefore(pos + 1, Rec.tx)
              /\ FirstCarrierHasAmount(Rec.tx, disputes[Rec.tx])
              /\ clients'[Rec.client] =
                    Settle(Rec.kind, Before(Rec.client), disputes[Rec.tx])
        /\ (Earlier(pos + 1, {"Dispute"}, Rec.tx) = {}) =>
              /\ NoAccountChange
              /\ disputes' = disputes
              /\ status' = "Running"]_vars

\* A deposit was disputed and then charged back: the account is Frozen and
\* the cached amount left held and total.
C6_Witness ==
    /\ pos = 3
    /\ file[1].kind = "Deposit" /\ file[1].amount = Some(2)
    /\ file[2].kind = "Dispute"
    /\ file[3].kind = "Chargeback"
    /\ \A i \in 1..3 : file[i].tx = 1 /\ file[i].client = 1
    /\ clients[1] = [inner |-> "Frozen",
                     balance |-> [available |-> 0, held |-> 0, total |-> 0]]

(***************************************************************************)
(* C7: a dispute record takes effect only against a transaction whose      *)
(* record appears earlier in the stream; a dispute whose tx_id is carried  *)
(* only by a record later in the stream is dropped.                        *)
(***************************************************************************)
C7_DisputeSeesOnlyEarlierRecords ==
    [][(Reads /\ Rec.kind = "Dispute") =>
        /\ (clients'[Rec.client] # Before(Rec.client)) =>
              Earlier(pos + 1, TransactionKind, Rec.tx) # {}
        /\ (/\ Earlier(pos + 1, TransactionKind, Rec.tx) = {}
            /\ \E j \in (pos + 2)..Len(file) : file[j].tx = Rec.tx) =>
              /\ status' = "Running"
              /\ NoAccountChange
              /\ disputes' = disputes]_vars

(***************************************************************************)
(* C8: the amount applied for a dispute, resolve or chargeback record is   *)
(* recovered from another record (the original transaction, or the dispute *)
(* cache), never from the amount field of that record itself.              *)
(***************************************************************************)
C8_AmountNeverFromTheRecordItself ==
    [][(/\ Reads
        /\ Rec.kind \in {"Dispute", "Resolve", "Chargeback"}
        /\ clients'[Rec.client] # Before(Rec.client)) =>
        IF Rec.kind = "Dispute"
        THEN \E j \in (1..Len(file)) \ {pos + 1} :
                /\ file[j].tx = Rec.tx
                /\ file[j].amount =
                      Some(clients'[Rec.client].balance.held - Before(Rec.client).balance.held)
        ELSE /\ Rec.tx \in DOMAIN disputes
             /\ Before(Rec.client).balance.held - clients'[Rec.client].balance.held
                   = disputes[Rec.tx]]_vars

(***************************************************************************)
(* C9: the dispute lookup for a tx_id returns the first record in file     *)
(* order that has that tx_id and a present amount, regardless of its kind, *)
(* and none when no such record exists: a record with the tx_id but no     *)
(* amount is not a match.                                                  *)
(***************************************************************************)
Least(S) == CHOOSE i \in S : \A j \in S : i <= j

\* The run loop is about to read a dispute record, whose tx_id it will look up.
LookupPending == status = "Running" /\ pos < Len(file) /\ Rec.kind = "Dispute"

C9_LookupFirstWithAmount ==
    LookupPending =>
        LET matches == {i \in 1..Len(file) : file[i].tx = Rec.tx /\ file[i].amount # None}
        IN  lookup_record(file, Rec.tx) =
                IF matches = {} THEN None ELSE Some(file[Least(matches)])

(***************************************************************************)
(* C10: withdraw(amount) on an Open account changes the balance only when  *)
(* available > amount strictly and amount > 0, then decreasing available   *)
(* and total by amount and leaving held unchanged; when amount >=          *)
(* available, equality included, the account is unchanged.                 *)
(***************************************************************************)
C10_WithdrawIsStrict ==
    [][(/\ calls' # calls
        /\ calls'[Len(calls')].op = "withdraw"
        /\ acct.inner = "Open") =>
        LET a == calls'[Len(calls')].amount
            b == acct.balance
        IN  IF b.available > a /\ a > 0
            THEN acct' = [inner |-> "Open",
                          balance |-> [available |-> b.available - a,
                                       held |-> b.held,
                                       total |-> b.total - a]]
            ELSE acct' = acct]_vars

\* A withdrawal of exactly the available funds was called and changed nothing.
C10_Witness ==
    /\ calls = <<[op |-> "deposit", amount |-> 2], [op |-> "withdraw", amount |-> 2]>>
    /\ acct = [inner |-> "Open", balance |-> [available |-> 2, held |-> 0, total |-> 2]]

(***************************************************************************)
(* Vocabulary of the properties of direct calls.                           *)
(***************************************************************************)
\* This step is a direct call on the account; LastCall is that call.
Calls == calls' # calls
LastCall == calls'[Len(calls')]

(***************************************************************************)
(* C11: deposit, withdraw, dispute, resolve and chargeback called with an  *)
(* amount <= 0 leave available, held and total unchanged, for every        *)
(* balance.                                                                *)
(***************************************************************************)
C11_NonPositiveAmountKeepsBalance ==
    [][(Calls /\ LastCall.amount <= 0) => acct'.balance = acct.balance]_vars

\* Funds were deposited and disputed, so no field of the balance is zero or
\* equal to another, and a call with a negative amount followed.
C11_Witness ==
    /\ Len(calls) = 3
    /\ calls[3].amount < 0
    /\ acct.inner = "Open"
    /\ acct.balance = [available |-> 1, held |-> 1, total |-> 2]

(***************************************************************************)
(* C12: an account operation with a non-positive amount leaves all account *)
(* state unchanged, the Open/Frozen lifecycle included: chargeback(amount) *)
(* with amount <= 0 on an Open account leaves it Open.                     *)
(***************************************************************************)
C12_NonPositiveAmountKeepsAccount ==
    [][(Calls /\ LastCall.amount <= 0) => acct' = acct]_vars

(***************************************************************************)
(* C19: dispute(amount) with amount > 0 on an Open account always applies, *)
(* whatever the available funds: available decreases by amount (possibly   *)
(* below zero), held increases by amount, total is unchanged.              *)
(***************************************************************************)
C19_DisputeAlwaysApplies ==
    [][(Calls /\ LastCall.op = "dispute" /\ LastCall.amount > 0 /\ acct.inner = "Open") =>
        acct' = [inner |-> "Open",
                 balance |-> [available |-> acct.balance.available - LastCall.amount,
                              held |-> acct.balance.held + LastCall.amount,
                              total |-> acct.balance.total]]]_vars

\* A dispute of more than the available funds was called: available is negative.
C19_Witness ==
    /\ calls = <<[op |-> "deposit", amount |-> 1], [op |-> "dispute", amount |-> 2]>>
    /\ acct = [inner |-> "Open", balance |-> [available |-> -1, held |-> 2, total |-> 1]]

(***************************************************************************)
(* C20: chargeback(amount) with amount > 0 on an Open account decreases    *)
(* held and total by amount, leaves available unchanged, and moves the     *)
(* account to Frozen holding exactly that resulting balance.               *)
(***************************************************************************)
C20_ChargebackFreezesResult ==
    [][(Calls /\ LastCall.op = "chargeback" /\ LastCall.amount > 0 /\ acct.inner = "Open") =>
        acct' = [inner |-> "Frozen",
                 balance |-> [available |-> acct.balance.available,
                              held |-> acct.balance.held - LastCall.amount,
                              total |-> acct.balance.total - LastCall.amount]]]_vars

\* A deposit of 2 was disputed for 1 and charged back for 1.
C20_Witness ==
    /\ calls = <<[op |-> "deposit", amount |-> 2], [op |-> "dispute", amount |-> 1],
                 [op |-> "chargeback", amount |-> 1]>>
    /\ acct = [inner |-> "Frozen", balance |-> [available |-> 1, held |-> 0, total |-> 1]]

(***************************************************************************)
(* C13: a record of any kind addressed to a client whose account is Frozen *)
(* leaves all state unchanged: that account, every other account and the   *)
(* dispute cache (no entry inserted by a dispute, none removed by a        *)
(* resolve or chargeback).                                                 *)
(***************************************************************************)
C13_RecordForFrozenClientChangesNothing ==
    [][(Reads /\ Rec.client \in DOMAIN clients /\ clients[Rec.client].inner = "Frozen") =>
        (clients' = clients /\ disputes' = disputes)]_vars

(***************************************************************************)
(* C14: in every state reachable by run over any sequence of records,      *)
(* every account's held funds are >= 0.                                    *)
(***************************************************************************)
C14_HeldIsNeverNegative == \A c \in DOMAIN clients : clients[c].balance.held >= 0

(***************************************************************************)
(* C16: run either processes the whole stream and returns Ok, or stops at  *)
(* the first record whose transition is illegal (a deposit or withdrawal   *)
(* with no amount) and returns that error; no record after the failing one *)
(* is read.  (Stated for the files in which no dispute, resolve or         *)
(* chargeback record carries an amount.)                                   *)
(***************************************************************************)
DisputesCarryNoAmount ==
    \A i \in 1..Len(file) :
        file[i].kind \in {"Dispute", "Resolve", "Chargeback"} => file[i].amount = None

IllegalAt(i) == file[i].kind \in {"Deposit", "Withdrawal"} /\ file[i].amount = None

C16_RunCompletesOrStopsAtFirstIllegal ==
    DisputesCarryNoAmount =>
        /\ status \in {"Running", "Ok", "Err"}
        /\ status = "Ok" => (pos = Len(file) /\ \A i \in 1..Len(file) : ~IllegalAt(i))
        /\ status = "Err" =>
              /\ pos >= 1
              /\ IllegalAt(pos)
              /\ error = Some([from |-> "Transaction<Received>",
                               to |-> "Transaction<Processing>"])
        /\ \A i \in 1..pos : IllegalAt(i) => (status = "Err" /\ pos = i)

(***************************************************************************)
(* C17: a client is created, with zero available/held/total and an Open    *)
(* account, when the first record naming its id is read, whatever the      *)
(* record's kind and whether or not the record has any effect; a later     *)
(* record for the same id reuses the existing client without resetting it; *)
(* no client is ever removed from the map.                                 *)
(***************************************************************************)
\* The record read in this step cannot touch a balance: run stops on it, or it
\* is a resolve or chargeback that finds no cache entry.
Ineffective ==
    \/ status' # "Running"
    \/ Rec.kind \in {"Resolve", "Chargeback"} /\ Rec.tx \notin DOMAIN disputes

\* The record read in this step is a deposit of a positive amount a.
Deposits(a) == Rec.kind = "Deposit" /\ Rec.amount = Some(a) /\ a > 0

C17_ClientsAreCreatedOnceAndKept ==
    [][Reads =>
        /\ DOMAIN clients' = {file[j].client : j \in 1..pos'}
        /\ DOMAIN clients \subseteq DOMAIN clients'
        /\ Rec.client \notin DOMAIN clients =>
              /\ Ineffective => clients'[Rec.client] = ZeroOpen
              /\ \A a \in Amounts : Deposits(a) =>
                    clients'[Rec.client] =
                        [inner |-> "Open",
                         balance |-> [available |-> a, held |-> 0, total |-> a]]
        /\ Rec.client \in DOMAIN clients =>
              /\ Ineffective => clients'[Rec.client] = clients[Rec.client]
              /\ \A a \in Amounts :
                    (Deposits(a) /\ clients[Rec.client].inner = "Open") =>
                        clients'[Rec.client].balance =
                            [available |-> clients[Rec.client].balance.available + a,
                             held |-> clients[Rec.client].balance.held,
                             total |-> clients[Rec.client].balance.total + a]]_vars

\* Client 1 was created by a resolve that had no effect, then two deposits for
\* the same client added up.
C17_Witness ==
    /\ pos = 3
    /\ file[1].kind = "Resolve"
    /\ file[2].kind = "Deposit" /\ file[2].amount = Some(2)
    /\ file[3].kind = "Deposit" /\ file[3].amount = Some(1)
    /\ \A i \in 1..3 : file[i].client = 1
    /\ clients[1] = [inner |-> "Open",
                     balance |-> [available |-> 3, held |-> 0, total |-> 3]]

(***************************************************************************)
(* C18: an account is Frozen in a reachable state if and only if a         *)
(* chargeback was applied to it (a chargeback record of its client that    *)
(* found a dispute cache entry) while it was Open; deposit, withdrawal,    *)
(* dispute and resolve records, and chargeback records that find no        *)
(* dispute cache entry, never freeze an account.                           *)
(***************************************************************************)
C18_FrozenOnlyByAppliedChargeback ==
    [][Reads =>
        /\ (clients'[Rec.client].inner = "Frozen" /\ Before(Rec.client).inner = "Open")
              <=> (/\ Rec.kind = "Chargeback"
                   /\ Rec.tx \in DOMAIN disputes
                   /\ Before(Rec.client).inner = "Open")
        /\ \A d \in DOMAIN clients \ {Rec.client} : clients'[d].inner = clients[d].inner
        /\ \A d \in DOMAIN clients' :
              clients'[d].inner = "Frozen" =>
                  \E j \in 1..pos' :
                      /\ file[j].kind = "Chargeback"
                      /\ file[j].client = d
                      /\ Earlier(j, {"Dispute"}, file[j].tx) # {}]_vars

\* A deposit was disputed and the chargeback that followed froze the account.
C18_Witness ==
    /\ pos = 3
    /\ file[1].kind = "Deposit" /\ file[1].amount = Some(1)
    /\ file[2].kind = "Dispute" /\ file[2].amount = None
    /\ file[3].kind = "Chargeback" /\ file[3].amount = None
    /\ \E c \in DOMAIN clients : clients[c].inner = "Frozen"

(***************************************************************************)
(* C15: the conversion Received -> Processing succeeds exactly when kind   *)
(* is Deposit or Withdrawal and the amount is present, and the conversions *)
(* Received -> DisputeLookup / Resolved / ChargedBack succeed exactly when *)
(* kind is Dispute / Resolve / Chargeback respectively; every other        *)
(* attempt returns an InvalidTransition error instead of a state.          *)
(***************************************************************************)
\* The conversion of the Received state `received` to `target` is a legal one.
Legal(received, target) ==
    CASE target = "Processing" ->
            received.kind \in {"Deposit", "Withdrawal"} /\ received.amount # None
      [] target = "DisputeLookup" -> received.kind = "Dispute"
      [] target = "Resolved" -> received.kind = "Resolve"
      [] target = "ChargedBack" -> received.kind = "Chargeback"

\* A conversion from Received is attempted in this step.
FromReceived == txn.stage = "Received" /\ txn' # txn

C15_ReceivedConversionsSucceedExactlyWhenLegal ==
    [][FromReceived =>
        /\ txn'.target \in {"Processing", "DisputeLookup", "Resolved", "ChargedBack"}
        /\ IF Legal(txn.state, txn'.target)
           THEN /\ txn'.stage = txn'.target
                /\ txn'.error = None
                /\ txn'.state =
                      IF txn'.target = "Processing"
                      THEN [kind |-> txn.state.kind, amount |-> txn.state.amount[1]]
                      ELSE [tx |-> txn.state.id, amount |-> None]
           ELSE /\ txn'.stage = "Failed"
                /\ txn'.error # None
                /\ txn'.error[1].from = "Transaction<Received>"
                /\ txn'.state = txn.state]_vars

\* A deposit with no amount was refused the conversion to Processing.
C15_Witness ==
    /\ txn.stage = "Failed"
    /\ txn.target = "Processing"
    /\ txn.received.kind = "Deposit"
    /\ txn.received.amount = None
    /\ txn.error # None

(***************************************************************************)
(* C21: Scenario A: after deposit(1,tx1,1.0), deposit(2,tx2,2.0),          *)
(* deposit(1,tx3,2.0), withdrawal(1,tx4,1.5), withdrawal(2,tx5,3.0) client *)
(* 1 is at available=1.5, held=0, total=1.5, Open and client 2 at          *)
(* available=2, held=0, total=2, Open: the withdrawal of 3.0 is rejected.  *)
(* (Amounts in halves.)                                                    *)
(***************************************************************************)
\* The first n records of the file are `rows`, and run has read exactly them.
StartsWith(rows) ==
    /\ Len(file) >= Len(rows)
    /\ \A i \in 1..Len(rows) : file[i] = rows[i]

HasRead(rows) == StartsWith(rows) /\ pos = Len(rows)

OpenWith(available, held, total) ==
    [inner |-> "Open",
     balance |-> [available |-> available, held |-> held, total |-> total]]

C21_ScenarioA ==
    /\ HasRead(ScenarioA) =>
          /\ DOMAIN clients = {1, 2}
          /\ clients[1] = OpenWith(3, 0, 3)
          /\ clients[2] = OpenWith(4, 0, 4)
          /\ status \in {"Running", "Ok"}
    /\ (HasRead(SubSeq(ScenarioA, 1, 4)) /\ file[5] = ScenarioA[5]) =>
          clients[2] = OpenWith(4, 0, 4)
    /\ (file = ScenarioA /\ status # "Running") => status = "Ok"

\* run over base.csv alone has returned Ok.
C21_Witness ==
    /\ file = ScenarioA
    /\ status = "Ok"
    /\ clients[1] = OpenWith(3, 0, 3)
    /\ clients[2] = OpenWith(4, 0, 4)

(***************************************************************************)
(* C22: Scenarios B and C: after Scenario A, deposit(1,tx6,1.5) then       *)
(* dispute(1,tx6) leaves client 1 at available=1.5, held=1.5, total=3.0,   *)
(* Open; a following resolve(1,tx6) leaves client 1 at available=3.0,      *)
(* held=0, total=3.0, Open; client 2 is unchanged throughout.  (Amounts in *)
(* halves.)                                                                *)
(***************************************************************************)
C22_ScenariosBAndC ==
    /\ HasRead(ScenarioB) => clients[1] = OpenWith(3, 3, 6)
    /\ HasRead(ScenarioC) => clients[1] = OpenWith(6, 0, 6)
    /\ \A n \in Len(ScenarioA)..Len(ScenarioC) :
          HasRead(SubSeq(ScenarioC, 1, n)) =>
              (clients[2] = OpenWith(4, 0, 4) /\ status \in {"Running", "Ok"})

\* run over resolve.csv has returned Ok.
C22_Witness ==
    /\ file = ScenarioC
    /\ status = "Ok"
    /\ clients[1] = OpenWith(6, 0, 6)
    /\ disputes = << >>

(***************************************************************************)
(* C23: Scenario D: after Scenario A, deposit(1,tx6,1.5), dispute(1,tx6),  *)
(* chargeback(1,tx6) leaves client 1 at available=1.5, held=0, total=1.5,  *)
(* Frozen, and every subsequent record of any kind for client 1 leaves     *)
(* client 1's account unchanged.  (Amounts in halves.)                     *)
(***************************************************************************)
C23_ScenarioD ==
    (StartsWith(ScenarioD) /\ pos >= Len(ScenarioD)) =>
        clients[1] = [inner |-> "Frozen",
                      balance |-> [available |-> 3, held |-> 0, total |-> 3]]

\* After chargeback.csv a withdrawal and a deposit for client 1 were read.
C23_Witness ==
    /\ StartsWith(ScenarioD)
    /\ pos = Len(ScenarioD) + 2
    /\ file[pos - 1].kind = "Withdrawal" /\ file[pos - 1].client = 1
    /\ file[pos].kind = "Deposit" /\ file[pos].client = 1
    /\ clients[1].inner = "Frozen"
    /\ clients[1].balance = [available |-> 3, held |-> 0, total |-> 3]

(***************************************************************************)
(* C24: every transaction that reaches Processing is dispatched to exactly *)
(* one Account operation, the one matching its kind, with the resolved     *)
(* amount, and then becomes Completed; no transaction is applied to an     *)
(* account more than once and no account changes except through this step. *)
(***************************************************************************)
\* What the one Account operation matching `kind` makes of `account`.
Dispatched(kind, account, amount) ==
    IF kind = "Deposit" THEN AccountDeposit(account, amount)
    ELSE IF kind = "Withdrawal" THEN AccountWithdraw(account, amount)
    ELSE IF kind = "Dispute" THEN AccountDispute(account, amount)
    ELSE IF kind = "Resolve" THEN AccountResolve(account, amount)
    ELSE AccountChargeback(account, amount)

C24_ProcessDispatchesOnce ==
    [][/\ (txn.stage = "Processing" /\ txn' # txn) =>
              /\ txn'.stage = "Completed"
              /\ txn.state.kind = txn.received.kind
              /\ txn.received.kind \in {"Deposit", "Withdrawal"} =>
                    txn.received.amount = Some(txn.state.amount)
              /\ acct' = Dispatched(txn.received.kind, acct, txn.state.amount)
       /\ acct' # acct => (txn.stage = "Processing" /\ txn'.stage = "Completed")
       /\ txn.stage = "Completed" => (txn' = txn /\ acct' = acct)]_vars

\* A resolve with the amount 1 set was processed on the account 2/1/3.
C24_Witness ==
    /\ txn.stage = "Completed"
    /\ txn.received.kind = "Resolve"
    /\ txn.state.amount = 1
    /\ acct = [inner |-> "Open", balance |-> [available |-> 3, held |-> 0, total |-> 3]]

(***************************************************************************)
(* C25: the conversions DisputeLookup -> Processing, Resolved ->           *)
(* Processing and ChargedBack -> Processing succeed exactly when an amount *)
(* has been set on the source state, producing a Processing of kind        *)
(* Dispute, Resolve or Chargeback respectively with that amount; with no   *)
(* amount set they return an InvalidTransition error.                      *)
(***************************************************************************)
\* The conversion to Processing is attempted on a looked-up state in this step.
FromLookup ==
    /\ txn.stage \in {"DisputeLookup", "Resolved", "ChargedBack"}
    /\ txn'.stage # txn.stage

KindOf(stage) ==
    IF stage = "DisputeLookup" THEN "Dispute"
    ELSE IF stage = "Resolved" THEN "Resolve"
    ELSE "Chargeback"

C25_LookupConversionsNeedAnAmount ==
    [][FromLookup =>
        IF txn.state.amount # None
        THEN /\ txn'.stage = "Processing"
             /\ txn'.state = [kind |-> KindOf(txn.stage), amount |-> txn.state.amount[1]]
             /\ txn'.error = None
        ELSE /\ txn'.stage = "Failed"
             /\ txn'.target = "Processing"
             /\ txn'.error # None
             /\ txn'.state = txn.state]_vars

\* A dispute lookup on which no amount was set was refused the conversion.
C25_Witness ==
    /\ txn.stage = "Failed"
    /\ txn.target = "Processing"
    /\ txn.received.kind = "Dispute"
    /\ txn.state = [tx |-> txn.received.id, amount |-> None]

(***************************************************************************)
(* C26: every InvalidTransition error names the source state and the       *)
(* target state of the attempted transition: for a conversion from         *)
(* Received attempted with the wrong kind, the error's 'to' field is the   *)
(* target state (Processing, DisputeLookup, Resolved or ChargedBack) and   *)
(* its 'from' field is Received.                                           *)
(***************************************************************************)
\* The name of a state type as the errors of transaction.rs write it.
StateName(stage) ==
    CASE stage = "Received" -> "Transaction<Received>"
      [] stage = "Processing" -> "Transaction<Processing>"
      [] stage = "DisputeLookup" -> "Transaction<DisputeLookup>"
      [] stage = "Resolved" -> "Transaction<Resolved>"
      [] stage = "ChargedBack" -> "Transaction<ChargedBack>"

C26_ErrorNamesSourceAndTarget ==
    [][(txn'.stage = "Failed" /\ txn.stage # "Failed") =>
        txn'.error = Some([from |-> StateName(txn.stage), to |-> StateName(txn'.target)])]_vars

(***************************************************************************)
(* C27: on an Open account, dispute(a) followed by resolve(a) with the     *)
(* same a > 0 restores available, held and total to their values before    *)
(* the dispute and leaves the account Open, for every starting balance.    *)
(***************************************************************************)
\* The last two calls were dispute(a) and resolve(a) with the same a > 0.
DisputeThenResolve ==
    /\ Len(calls) >= 2
    /\ calls[Len(calls) - 1].op = "dispute"
    /\ calls[Len(calls)].op = "resolve"
    /\ calls[Len(calls)].amount = calls[Len(calls) - 1].amount
    /\ calls[Len(calls)].amount > 0

\* The account as it was before the last two calls.
TwoCallsAgo == AccountAfter(SubSeq(calls, 1, Len(calls) - 2))

C27_DisputeThenResolveRestores ==
    /\ acct = AccountAfter(calls)
    /\ (DisputeThenResolve /\ TwoCallsAgo.inner = "Open") =>
          /\ acct.inner = "Open"
          /\ acct.balance.available = TwoCallsAgo.balance.available
          /\ acct.balance.held = TwoCallsAgo.balance.held
          /\ acct.balance.total = TwoCallsAgo.balance.total

\* deposit(2), dispute(1), resolve(1): the account is back at 2/0/2.
C27_Witness ==
    /\ DisputeThenResolve
    /\ calls[1] = [op |-> "deposit", amount |-> 2]
    /\ calls[2].amount = 1
    /\ acct = [inner |-> "Open", balance |-> [available |-> 2, held |-> 0, total |-> 2]]

(***************************************************************************)
(* C28: a dispute lookup does not disturb the primary stream and is        *)
(* repeatable: after the lookup the run loop is at the record immediately  *)
(* following the dispute (none skipped, none re-read), and lookups of the  *)
(* same tx at any two points of the run return the same record: when an    *)
(* earlier row carries the tx, the first such row of the file.             *)
(***************************************************************************)
\* The next record of the primary stream is a dispute.
AtDispute == pos < Len(file) /\ file[pos + 1].kind = "Dispute"

\* The row a lookup of tx returns, wherever the run is: the first with that tx.
FirstRowWith(tx) == Least({i \in 1..Len(file) : file[i].tx = tx})

C28_LookupLeavesStreamAndRepeats ==
    [][AtDispute =>
        /\ pos' = pos + 1
        /\ file' = file
        /\ (FirstRowWith(Rec.tx) <= pos /\ file[FirstRowWith(Rec.tx)].amount # None) =>
              /\ status' = "Running"
              /\ Rec.tx \in DOMAIN disputes'
              /\ disputes'[Rec.tx] = file[FirstRowWith(Rec.tx)].amount[1]]_vars

\* Two disputes of the deposit of tx 1 were read, one after the other; each
\* lookup found the deposit, and the second one held its amount again.
C28_Witness ==
    /\ pos = 3
    /\ file[1] = [kind |-> "Deposit", client |-> 1, tx |-> 1, amount |-> Some(2)]
    /\ file[2] = [kind |-> "Dispute", client |-> 1, tx |-> 1, amount |-> None]
    /\ file[3] = file[2]
    /\ disputes = (1 :> 2)
    /\ clients[1].balance = [available |-> (0 - 2), held |-> 4, total |-> 2]

(***************************************************************************)
(* C29: for every finite record stream run terminates, having read each    *)
(* record exactly once in file order (all of them when it returns Ok, the  *)
(* records up to the one it stops at otherwise) and having fully applied a *)
(* record's effect on the client map and dispute cache before the next     *)
(* record is read.                                                         *)
(***************************************************************************)
C29_RunTerminatesReadingInOrder ==
    /\ <>(status # "Running")
    /\ [](status = "Ok" => pos = Len(file))
    /\ [][/\ status = "Running"
          /\ file' = file
          /\ \/ pos' = pos + 1 /\ pos < Len(file)
             \/ pos' = pos /\ pos = Len(file) /\ status' = "Ok"
          /\ pos' = pos => (clients' = clients /\ disputes' = disputes)
          /\ pos' = pos + 1 =>
                LET out == process_record(Rec, Before(Rec.client), disputes, file)
                IN  /\ clients'[Rec.client] = out.account
                    /\ disputes' = out.disputes]_vars

\* run has returned Ok after reading three records with an effect.
C29_Witness ==
    /\ status = "Ok"
    /\ pos = 3
    /\ Len(file) = 3
    /\ file[1].kind = "Deposit"
    /\ file[2].kind = "Dispute"
    /\ file[3].kind = "Resolve"
    /\ \E c \in DOMAIN clients : clients[c].balance.available > 0

(***************************************************************************)
(* C30: processing one record changes at most the account of the client    *)
(* named by that record's client_id: the balance and lifecycle of every    *)
(* other client in the map are unchanged by that step.                     *)
(***************************************************************************)
C30_OnlyTheNamedClientChanges ==
    [][Reads =>
        \A c \in DOMAIN clients \ {Rec.client} :
            /\ c \in DOMAIN clients'
            /\ clients'[c].balance = clients[c].balance
            /\ clients'[c].inner = clients[c].inner]_vars

\* Client 2 disputed the deposit of client 1: the funds were held on client 2,
\* client 1 kept its balance.
C30_Witness ==
    /\ pos = 3
    /\ file[1] = [kind |-> "Deposit", client |-> 1, tx |-> 1, amount |-> Some(2)]
    /\ file[2] = [kind |-> "Deposit", client |-> 2, tx |-> 2, amount |-> Some(1)]
    /\ file[3] = [kind |-> "Dispute", client |-> 2, tx |-> 1, amount |-> None]
    /\ clients[1].balance = [available |-> 2, held |-> 0, total |-> 2]
    /\ clients[2].balance = [available |-> (0 - 1), held |-> 2, total |-> 1]

(***************************************************************************)
(* C31: a dispute, resolve or chargeback record changes an account only    *)
(* when its client_id equals the client_id of the original transaction     *)
(* record carrying the referenced tx_id; a record naming a different       *)
(* client than the transaction's owner is dropped without changing any     *)
(* balance.                                                                *)
(***************************************************************************)
\* The deposits and withdrawals read so far that carry tx.
Originals(tx) == Earlier(pos + 1, {"Deposit", "Withdrawal"}, tx)

C31_OnlyTheOwnerSettles ==
    [][(/\ Reads
        /\ Rec.kind \in {"Dispute", "Resolve", "Chargeback"}
        /\ Originals(Rec.tx) # {}
        /\ file[Least(Originals(Rec.tx))].client # Rec.client) => NoAccountChange]_vars

(***************************************************************************)
(* C32: at most one dispute is outstanding per tx_id: a dispute record for *)
(* a tx_id that already has an entry in the dispute cache does not move    *)
(* the amount from available to held a second time.                        *)
(***************************************************************************)
C32_OneOutstandingDisputePerTx ==
    [][(Reads /\ Rec.kind = "Dispute" /\ Rec.tx \in DOMAIN disputes) => NoAccountChange]_vars

(***************************************************************************)
(* C33: client non-interference: for any two record streams on which run   *)
(* returns Ok, in which every tx_id is used by the records of one client   *)
(* only, and whose subsequences of records with client_id c are identical, *)
(* the final account of client c is the same in both runs.  Checked        *)
(* against the run over the common subsequence alone: every such stream    *)
(* leaves client c with the account that run over the records of c alone   *)
(* leaves, so any two of them leave the same.                              *)
(***************************************************************************)
TxPerClient ==
    \A i, j \in 1..Len(file) : file[i].tx = file[j].tx => file[i].client = file[j].client

\* The subsequence of the records with client_id c.
RecordsOf(records, c) == SelectSeq(records, LAMBDA r : r.client = c)

C33_ClientNonInterference ==
    (status = "Ok" /\ TxPerClient) =>
        /\ RunOf(file).clients = clients
        /\ \A c \in DOMAIN clients :
              /\ RunOf(RecordsOf(file, c)).status = "Ok"
              /\ RunOf(RecordsOf(file, c)).clients[c] = clients[c]

\* The records of client 1 (a deposit, its dispute and the resolve) were read
\* with a deposit of client 2 between them.
C33_Witness ==
    /\ status = "Ok"
    /\ TxPerClient
    /\ Len(file) = 4
    /\ file[1].kind = "Deposit" /\ file[1].client = 1
    /\ file[2].kind = "Dispute" /\ file[2].client = 1
    /\ file[3].kind = "Deposit" /\ file[3].client = 2
    /\ file[4].kind = "Resolve" /\ file[4].client = 1
    /\ clients[1].balance.available > 0
    /\ clients[2].balance.available > 0

====
